---- MODULE Spec2Model ----
(***************************************************************************)
(* A model of the team-simulation classes of this repository:              *)
(*   TeamSimulation            (src/src/simulation_template.py)            *)
(*   LeadershipStyleSimulation (src/src/leadership_style_simulation.py)    *)
(*   BasicTeamSimulation       (src/check_in_2_basic_simulation.py)        *)
(*   TeamSimulationCrewAI      (src/examples/crewai_team_simulation.py)    *)
(*   DiversityInclusionSimulation                                          *)
(*                      (src/src/diversity_inclusion_simulation.py)        *)
(* One simulation object is modelled; its class is fixed by Init.  Each    *)
(* public method is one action.  The crewai library (Agent, Task, Crew,    *)
(* Crew.kickoff) is external: kickoff is a single call that either returns *)
(* a text or raises.                                                       *)
(*                                                                         *)
(* The specifications of the module:                                       *)
(*   Spec          the life cycle of one simulation object                 *)
(*   SpecTraits    the trait descriptor on inputs drawn by Init            *)
(*   SpecPersona   the persona builders of one TeamSimulation object       *)
(*   SpecProfiles  two DiversityInclusionSimulation objects constructed    *)
(*                 with the same configuration                             *)
(*   SpecAggregate process_results on simulation states drawn by Init      *)
(*   SpecSnapshot  a metrics record and later changes of its team          *)
(*   SpecCompare   compare_simulations and the comparison runs             *)
(*   SpecSave      runs and save_results on a simulation object            *)
(*   SpecSetup     TeamSimulation.setup_team with the built personas       *)
(*   SpecDiversity one DiversityInclusionSimulation and its scenarios      *)
(***************************************************************************)
EXTENDS Integers, Sequences, FiniteSets, TLC

VARIABLES
    cls,            \* the class of the simulation object
    team_size,      \* self.team_size      (constructor argument)
    include_deviant,\* self.include_deviant (TeamSimulation only)
    agents,         \* self.agents : sequence of persona records
    tasks,          \* self.tasks  : sequence of bound tasks
    crew,           \* self.crew   : None, or the Crew built by the last run
    results,        \* self.results
    start_time,     \* self.start_time
    end_time,       \* self.end_time
    now,            \* the wall clock read by datetime.now()
    engine_calls,   \* number of Crew.kickoff() calls issued so far
    ret,            \* what the last method call returned or raised
    d_cls,          \* SpecTraits: class whose descriptor/builder is applied
    d_traits,       \* SpecTraits: the trait mapping drawn by Init
    d_text,         \* SpecTraits: result of the last description
    d_agents,       \* SpecTraits: self.agents of the builder's object
    d_prev,         \* SpecTraits: the build before the last one
    d_last,         \* SpecTraits: the last build (inputs and narrative)
    p_size,         \* SpecProfiles: team_size of the two simulations
    p_level,        \* SpecProfiles: diversity_level of the two simulations
    p_profiles,     \* SpecProfiles: self.team_profiles of each simulation
    p_agents,       \* SpecProfiles: self.agents of each simulation
    a_log,          \* SpecAggregate: the process_results calls made so far
    h_heap,         \* SpecSnapshot: the traits dictionaries, by object identity
    h_record,       \* SpecSnapshot: the metrics record the caller holds
    m_in,           \* SpecCompare: sim_results_list of compare_simulations
    m_names,        \* SpecCompare: names of compare_simulations
    m_out,          \* SpecCompare: what compare_simulations returned or raised
    m_fn,           \* SpecCompare: the comparison function that is running
    m_results,      \* SpecCompare: its local dictionary "results"
    m_pc,           \* SpecCompare: the configuration its loop is at
    files           \* SpecSave: the result files written, by the clock reading in their name

simvars == <<cls, team_size, include_deviant, agents, tasks, crew, results,
             start_time, end_time, now, engine_calls, ret>>
dvars == <<d_cls, d_traits, d_text, d_agents, d_prev, d_last>>
pvars == <<p_size, p_level, p_profiles, p_agents>>
hvars == <<h_heap, h_record>>
mvars == <<m_in, m_names, m_out, m_fn, m_results, m_pc>>
xvars == <<pvars, a_log, hvars, mvars, files>>
vars == <<simvars, dvars, xvars>>

----------------------------------------------------------------------------
(* Bounds of the model *)

MaxTeamSize == 1
MaxAgents == 3
MaxMembers == 2
MaxTasks == 2
MaxRuns == 2
MaxTraits == 2
MaxBuilds == 2

----------------------------------------------------------------------------
(* Values *)

None == "None"
EmptyDict == "{}"
\* start_time / end_time before any run (Python None)
NoTime == -1

TS == "TeamSimulation"
LS == "LeadershipStyleSimulation"
BS == "BasicTeamSimulation"
CA == "TeamSimulationCrewAI"

Classes == {TS, LS, BS, CA}
\* classes whose add_task looks the agent up by role
RoleBinding == {TS, LS}

\* A crewai Agent object: the role it was built with and the name written
\* into its backstory ("You are {name}, ...").
Agent(r, n) == [role |-> r, name |-> n]

\* An entry of self.agents: the dictionary appended by the builders.
Persona(n, r) == [name |-> n, role |-> r, agent |-> Agent(r, n)]

\* A personality definition (an element of a personalities list).
Personality(n, r) == [name |-> n, role |-> r]

\* self.default_personalities of TeamSimulation, in list order
default_personalities ==
    << Personality("Alex", "Team Leader"),
       Personality("Blair", "Technical Expert"),
       Personality("Casey", "Creative Lead"),
       Personality("Drew", "Analyst"),
       Personality("Ellis", "Marketing Specialist"),
       Personality("Finley", "Devil's Advocate") >>

\* self.team_personalities of LeadershipStyleSimulation, in list order
team_personalities ==
    << Personality("Taylor", "Technical Expert"),
       Personality("Jordan", "Creative Designer"),
       Personality("Riley", "Project Coordinator"),
       Personality("Casey", "Market Researcher"),
       Personality("Morgan", "Finance Specialist") >>

\* custom_personalities arguments tried for TeamSimulation.setup_team
\* (<< >> stands for both None and the empty list: either is falsy and
\* selects the defaults)
CustomPersonalities ==
    { << >>,
      << Personality("Pat", "Analyst") >>,
      << Personality("Pat", "Analyst"), Personality("Sam", "Analyst"),
         Personality("Finley", "Devil's Advocate") >> }

\* names and roles tried for create_team_leader / create_team_member
MemberNames == {"Taylor"}
MemberRoles == {"Analyst"}

\* roles tried as add_task's assigned_to
TaskRoles == {"Team Leader", "Analyst", "Nonexistent"}
\* a text of n characters
Text(n) == [i \in 1..n |-> IF i % 2 = 1 THEN "d" ELSE "1"]
Descriptions == {Text(2)}

\* process_type arguments and str.lower() on them
ProcessTypes == {"hierarchical", "HIERARCHICAL", "Sequential", "parallel"}
Lower(s) ==
    CASE s = "Sequential" -> "sequential"
      [] s = "HIERARCHICAL" -> "hierarchical"
      [] OTHER -> s

\* texts Crew.kickoff() may return
Outputs == {"", "out"}

Min(a, b) == IF a < b THEN a ELSE b
Max(a, b) == IF a > b THEN a ELSE b

RolesOf(as) == { as[i].role : i \in 1..Len(as) }

\* Python truthiness of a value stored in self.results
Truthy(v) == v \notin {None, EmptyDict, ""}

\* An Agent object that was never added to the team
Outsider == Agent("Nonexistent", "Outsider")

----------------------------------------------------------------------------
(* Return values *)

\* value is << >> (nothing) or a one-element sequence holding the value
Returned(op, arg, v) == [op |-> op, arg |-> arg, exc |-> None, msg |-> None, value |-> <<v>>]
ReturnedNone(op, arg) == [op |-> op, arg |-> arg, exc |-> None, msg |-> None, value |-> << >>]
Raised(op, arg, e, m) == [op |-> op, arg |-> arg, exc |-> e, msg |-> m, value |-> << >>]

----------------------------------------------------------------------------
(* Trait description *)

\* thresholds of _traits_to_text, in hundredths (0.7 and 0.3)
HighThreshold == 70
LowThreshold == 30

\* trait names and intensities (in hundredths) tried as inputs; "humor" is a
\* name no descriptor knows
TraitNames == {"openness", "conscientiousness", "extraversion", "agreeableness",
               "neuroticism", "conformity", "humor"}
TraitValues == {29, 30, 50, 70, 71}

\* A Python dict of traits: its items in insertion order, keys distinct
TraitMaps ==
    UNION { { m \in [1..n -> TraitNames \X TraitValues] :
                \A i, j \in 1..n : i # j => m[i][1] # m[j][1] } : n \in 0..MaxTraits }

\* the keys of trait_descriptions in each class
trait_descriptions_keys(c) ==
    IF c = TS
    THEN {"openness", "conscientiousness", "extraversion", "agreeableness",
          "neuroticism", "conformity"}
    ELSE {"openness", "conscientiousness", "extraversion", "agreeableness",
          "neuroticism"}

\* trait_descriptions[trait][level]
trait_descriptions(trait, level) ==
    CASE trait = "openness" /\ level = "high" ->
            "You are very open to new ideas and experiences."
      [] trait = "openness" /\ level = "low" ->
            "You prefer traditional, familiar approaches."
      [] trait = "conscientiousness" /\ level = "high" ->
            "You are highly organized and detail-oriented."
      [] trait = "conscientiousness" /\ level = "low" ->
            "You tend to be flexible and spontaneous rather than organized."
      [] trait = "extraversion" /\ level = "high" ->
            "You are outgoing and energized by social interaction."
      [] trait = "extraversion" /\ level = "low" ->
            "You are more reserved and prefer thinking before speaking."
      [] trait = "agreeableness" /\ level = "high" ->
            "You prioritize team harmony and are cooperative."
      [] trait = "agreeableness" /\ level = "low" ->
            "You're not afraid of disagreement and can be competitive."
      [] trait = "neuroticism" /\ level = "high" ->
            "You tend to worry about things going wrong."
      [] trait = "neuroticism" /\ level = "low" ->
            "You are emotionally stable and rarely get stressed."
      [] trait = "conformity" /\ level = "high" ->
            "You tend to go along with group decisions."
      [] trait = "conformity" /\ level = "low" ->
            "You often question group consensus and challenge the team's thinking."

\* " ".join(descriptions).  A text is the sequence of its pieces; the empty
\* sequence is the empty string.
RECURSIVE join(_)
join(descriptions) ==
    IF Len(descriptions) = 0 THEN << >>
    ELSE IF Len(descriptions) = 1 THEN descriptions
    ELSE <<Head(descriptions), " ">> \o join(Tail(descriptions))

\* (faulty variant) closed thresholds: 0.7 counts as high, 0.3 as low
level_of_closed(value) ==
    IF value >= HighThreshold THEN "high"
    ELSE IF value <= LowThreshold THEN "low"
    ELSE None

\* the test "value > 0.7" / "value < 0.3" of one trait: "high", "low" or None
level_of(value) ==
    IF value > HighThreshold THEN "high"
    ELSE IF value < LowThreshold THEN "low"
    ELSE None

\* (faulty variant) a loop that has a sentence for a trait it does not know
RECURSIVE descriptions_of_strict(_, _)
descriptions_of_strict(keys, traits) ==
    IF traits = << >> THEN << >>
    ELSE LET trait == Head(traits)[1]
             value == Head(traits)[2]
             rest == descriptions_of_strict(keys, Tail(traits))
         IN  IF trait \notin keys
             THEN <<"You have an unknown trait.">> \o rest
             ELSE IF level_of(value) # None
                  THEN <<trait_descriptions(trait, level_of(value))>> \o rest
                  ELSE rest

\* the loop of _traits_to_text: the sentences appended, walking
\* traits.items() in the dict's own order
RECURSIVE descriptions_of(_, _)
descriptions_of(keys, traits) ==
    IF traits = << >> THEN << >>
    ELSE LET trait == Head(traits)[1]
             value == Head(traits)[2]
             rest == descriptions_of(keys, Tail(traits))
         IN  IF trait \in keys /\ level_of(value) # None
             THEN <<trait_descriptions(trait, level_of(value))>> \o rest
             ELSE rest

\* TeamSimulation._traits_to_text / LeadershipStyleSimulation._traits_to_text
traits_to_text(c, traits) ==
    join(descriptions_of(trait_descriptions_keys(c), traits))

\* traits[name] when the dict has the key, None otherwise
lookup(traits, name) ==
    IF \E i \in 1..Len(traits) : traits[i][1] = name
    THEN (CHOOSE i \in 1..Len(traits) : traits[i][1] = name)
    ELSE 0

\* the chain of "if name in traits" tests of _personality_to_text, in the
\* order the source writes them
personality_order ==
    <<"openness", "conscientiousness", "extraversion", "agreeableness", "neuroticism">>

\* TeamSimulationCrewAI._personality_to_text (None and {} are both falsy)
personality_to_text(traits) ==
    IF traits = << >>
    THEN <<"You have a balanced personality with no extreme tendencies.">>
    ELSE LET present == SelectSeq(personality_order,
                           LAMBDA name : lookup(traits, name) # 0)
             ordered == [k \in 1..Len(present) |->
                           traits[lookup(traits, present[k])]]
         IN  join(descriptions_of(trait_descriptions_keys(CA), ordered))

\* the descriptor of class c
describe(c, traits) ==
    IF c = CA THEN personality_to_text(traits) ELSE traits_to_text(c, traits)

----------------------------------------------------------------------------
(* Persona building (TeamSimulation) *)

\* the simulation object as the builders see it: self.model and self.agents
Self(as) == [model |-> "gpt-4o-mini", agents |-> as]

\* (faulty variant) a builder that numbers the member after the agents built so far
create_agent_numbered(self, name, role, expertise, traits) ==
    [name |-> name, role |-> role, expertise |-> expertise, traits |-> traits,
     agent |->
        [role |-> role,
         goal |-> <<"Contribute your expertise in ", expertise,
                    " to help the team succeed">>,
         backstory |->
            <<"You are ", name, ", with expertise in ", expertise, ".\n">>
            \o <<"member ", ToString(Len(self.agents))>>
            \o traits_to_text(TS, traits)
            \o <<"\nYou work well with others but also have your own perspective and ideas.\nYou want the team to succeed and share your knowledge.">>,
         verbose |-> TRUE,
         allow_delegation |-> (role = "Team Leader"),
         llm |-> self.model]]

\* TeamSimulation._create_agent: the dictionary it returns; the narrative is
\* the Agent's backstory
create_agent(self, name, role, expertise, traits) ==
    [name |-> name, role |-> role, expertise |-> expertise, traits |-> traits,
     agent |->
        [role |-> role,
         goal |-> <<"Contribute your expertise in ", expertise,
                    " to help the team succeed">>,
         backstory |->
            <<"You are ", name, ", with expertise in ", expertise, ".\n">>
            \o traits_to_text(TS, traits)
            \o <<"\nYou work well with others but also have your own perspective and ideas.\nYou want the team to succeed and share your knowledge.">>,
         verbose |-> TRUE,
         allow_delegation |-> (role = "Team Leader"),
         llm |-> self.model]]

\* TeamSimulation._create_deviant_agent
create_deviant_agent(self, name, role, expertise, traits) ==
    [name |-> name, role |-> role, expertise |-> expertise, traits |-> traits,
     agent |->
        [role |-> role,
         goal |-> <<"Contribute your expertise while challenging conventional thinking">>,
         backstory |->
            <<"You are ", name, ", with expertise in ", expertise, ".\n">>
            \o traits_to_text(TS, traits)
            \o <<"\nYou are known for challenging the status quo and questioning assumptions.\nYou believe that the best ideas emerge from constructive conflict and diverse perspectives.\nYou often play devil's advocate even when you might agree with the team.">>,
         verbose |-> TRUE,
         llm |-> self.model]]

\* inputs tried for the builders
BuildNames == {"Alex", "Finley", ""}
BuildRoles == {"Team Leader", "Devil's Advocate", ""}
BuildExpertise == {"critical thinking"}
BuildTraits ==
    { << >>,
      << <<"openness", 90>>, <<"agreeableness", 30>>, <<"conformity", 20>> >>,
      << <<"conformity", 20>>, <<"openness", 90>> >> }
Variants == {"Standard", "Dissenting"}

DIdle ==
    /\ d_cls = TS
    /\ d_traits = << >>
    /\ d_text = << >>
    /\ d_agents = << >>
    /\ d_prev = << >>
    /\ d_last = << >>

\* no DiversityInclusionSimulation constructed
PIdle ==
    /\ p_size = 0
    /\ p_level = "low"
    /\ p_profiles = << << >>, << >> >>
    /\ p_agents = << << >>, << >> >>

\* the variables of the other specifications, at rest
HIdle == h_heap = << >> /\ h_record = << >>
MIdle ==
    /\ m_in = << >> /\ m_names = << >> /\ m_out = << >>
    /\ m_fn = "leadership" /\ m_results = << >> /\ m_pc = 1
\* no result file written
FIdle == files = << >>
XIdle == PIdle /\ a_log = << >> /\ HIdle /\ MIdle /\ FIdle

----------------------------------------------------------------------------
(* Construction *)

SimInit ==
    /\ cls \in Classes
    /\ team_size \in 0..MaxTeamSize
    /\ include_deviant \in BOOLEAN
    \* only TeamSimulation has include_deviant, only TeamSimulation and
    \* LeadershipStyleSimulation have team_size
    /\ (cls # TS => include_deviant = FALSE)
    /\ (cls \notin {TS, LS} => team_size = 0)
    /\ agents = << >>
    /\ tasks = << >>
    /\ crew = << >>
    /\ results = IF cls = CA THEN EmptyDict ELSE None
    /\ start_time = NoTime
    /\ end_time = NoTime
    /\ now = 0
    /\ engine_calls = 0
    /\ ret = ReturnedNone("__init__", "")

SimIdle ==
    /\ cls = TS /\ team_size = 0 /\ include_deviant = FALSE
    /\ agents = << >> /\ tasks = << >> /\ crew = << >>
    /\ results = None /\ start_time = NoTime /\ end_time = NoTime
    /\ now = 0 /\ engine_calls = 0
    /\ ret = ReturnedNone("__init__", "")

----------------------------------------------------------------------------
(* Team building *)

\* the personas one TeamSimulation.setup_team call appends
TS_new_agents(size, deviant, custom) ==
    LET personalities == IF custom # << >> THEN custom ELSE default_personalities
        actual_team_size == Min(size, Len(personalities) - 1)
        regular == [i \in 1..Max(actual_team_size, 0) |->
                       Persona(personalities[i].name, personalities[i].role)]
        last == personalities[Len(personalities)]
    IN  IF deviant
        THEN Append(regular, Persona(last.name, last.role))
        ELSE regular

TS_setup_team(custom) ==
    /\ cls = TS
    /\ LET new == TS_new_agents(team_size, include_deviant, custom)
       IN  /\ Len(agents) + Len(new) <= MaxAgents
           /\ agents' = agents \o new
    /\ ret' = ReturnedNone("setup_team", "")
    /\ UNCHANGED <<cls, team_size, include_deviant, tasks, crew, results,
                   start_time, end_time, now, engine_calls>>

\* the personas one LeadershipStyleSimulation.setup_team call appends:
\* the leader first, then the members
LS_new_agents(size) ==
    <<Persona("Alex", "Team Leader")>> \o
    [i \in 1..Max(Min(size, Len(team_personalities)), 0) |->
        Persona(team_personalities[i].name, team_personalities[i].role)]

LS_setup_team ==
    /\ cls = LS
    /\ LET new == LS_new_agents(team_size)
       IN  /\ Len(agents) + Len(new) <= MaxAgents
           /\ agents' = agents \o new
    /\ ret' = ReturnedNone("setup_team", "")
    /\ UNCHANGED <<cls, team_size, include_deviant, tasks, crew, results,
                   start_time, end_time, now, engine_calls>>

\* BasicTeamSimulation / TeamSimulationCrewAI: one builder call per persona
create_team_leader(name) ==
    /\ cls \in {BS, CA}
    /\ Len(agents) < MaxMembers
    /\ agents' = Append(agents, Persona(name, "Team Leader"))
    /\ ret' = Returned("create_team_leader", name, Agent("Team Leader", name))
    /\ UNCHANGED <<cls, team_size, include_deviant, tasks, crew, results,
                   start_time, end_time, now, engine_calls>>

create_team_member(name, role) ==
    /\ cls \in {BS, CA}
    /\ Len(agents) < MaxMembers
    /\ agents' = Append(agents, Persona(name, role))
    /\ ret' = Returned("create_team_member", name, Agent(role, name))
    /\ UNCHANGED <<cls, team_size, include_deviant, tasks, crew, results,
                   start_time, end_time, now, engine_calls>>

\* "Deviant " + role
DeviantRole(role) ==
    CASE role = "Analyst" -> "Deviant Analyst"
      [] role = "Team Leader" -> "Deviant Team Leader"
      [] OTHER -> "Deviant"

\* the Agent keeps the plain role, the team entry gets "Deviant " + role
create_deviant_member(name, role) ==
    /\ cls = CA
    /\ Len(agents) < MaxMembers
    /\ agents' = Append(agents, [name |-> name, role |-> DeviantRole(role),
                                 agent |-> Agent(role, name)])
    /\ ret' = Returned("create_deviant_member", name, Agent(role, name))
    /\ UNCHANGED <<cls, team_size, include_deviant, tasks, crew, results,
                   start_time, end_time, now, engine_calls>>

----------------------------------------------------------------------------
(* Task binding *)

Task(description, agent) == [description |-> description, agent |-> agent]

\* next((a for a in self.agents if a["role"] == assigned_to), None):
\* the index of the first entry with that role, 0 when there is none
first_match(as, assigned_to) ==
    IF assigned_to \in RolesOf(as)
    THEN CHOOSE i \in 1..Len(as) :
            /\ as[i].role = assigned_to
            /\ \A j \in 1..(i - 1) : as[j].role # assigned_to
    ELSE 0

\* (faulty variant) add_task without the lookup's None test: a task for a role nobody
\* holds is appended all the same
add_task_unchecked(description, assigned_to) ==
    /\ cls \in RoleBinding
    /\ Len(tasks) < MaxTasks
    /\ LET i == first_match(agents, assigned_to)
           agent == IF i = 0 THEN Outsider ELSE agents[i].agent
       IN  /\ tasks' = Append(tasks,
                  [description |-> description,
                   assigned_to |-> assigned_to,
                   task_object |-> Task(description, agent)])
           /\ ret' = Returned("add_task", assigned_to, Task(description, agent))
    /\ UNCHANGED <<cls, team_size, include_deviant, agents, crew, results,
                   start_time, end_time, now, engine_calls>>

\* (faulty variant) add_task that binds a (description, role) pair once: a
\* second call with the same arguments returns the task and appends nothing
add_task_idempotent(description, assigned_to) ==
    /\ cls \in RoleBinding
    /\ LET i == first_match(agents, assigned_to)
       IN  IF i = 0
           THEN /\ ret' = Raised("add_task", assigned_to, "ValueError", "No agent with role")
                /\ UNCHANGED tasks
           ELSE LET entry == [description |-> description,
                              assigned_to |-> assigned_to,
                              task_object |-> Task(description, agents[i].agent)]
                IN  /\ Len(tasks) < MaxTasks
                    /\ tasks' = IF \E k \in 1..Len(tasks) : tasks[k] = entry
                                THEN tasks ELSE Append(tasks, entry)
                    /\ ret' = Returned("add_task", assigned_to,
                                       Task(description, agents[i].agent))
    /\ UNCHANGED <<cls, team_size, include_deviant, agents, crew, results,
                   start_time, end_time, now, engine_calls>>

\* TeamSimulation.add_task / LeadershipStyleSimulation.add_task
add_task(description, assigned_to) ==
    /\ cls \in RoleBinding
    /\ LET i == first_match(agents, assigned_to)
       IN  IF i = 0
           THEN /\ ret' = Raised("add_task", assigned_to, "ValueError", "No agent with role")
                /\ UNCHANGED tasks
           ELSE /\ Len(tasks) < MaxTasks
                /\ tasks' = Append(tasks,
                       [description |-> description,
                        assigned_to |-> assigned_to,
                        task_object |-> Task(description, agents[i].agent)])
                /\ ret' = Returned("add_task", assigned_to,
                                   Task(description, agents[i].agent))
    /\ UNCHANGED <<cls, team_size, include_deviant, agents, crew, results,
                   start_time, end_time, now, engine_calls>>

\* BasicTeamSimulation.add_task / TeamSimulationCrewAI.add_task: the caller
\* passes the Agent object, no lookup is done
add_task_agent(description, agent) ==
    /\ cls \in {BS, CA}
    /\ Len(tasks) < MaxTasks
    /\ tasks' = Append(tasks, Task(description, agent))
    /\ ret' = Returned("add_task", agent.role, Task(description, agent))
    /\ UNCHANGED <<cls, team_size, include_deviant, agents, crew, results,
                   start_time, end_time, now, engine_calls>>

\* the Task objects handed to Crew(tasks=...)
task_objects ==
    IF cls \in RoleBinding
    THEN [i \in 1..Len(tasks) |-> tasks[i].task_object]
    ELSE tasks

----------------------------------------------------------------------------
(* Running *)

\* the Process member selected from the process_type string
TS_process(process_type) ==
    IF Lower(process_type) = "hierarchical" THEN "hierarchical" ELSE "sequential"

BS_process(process_type) ==
    IF Lower(process_type) = "sequential" THEN "sequential" ELSE "hierarchical"

process_of(c, process_type) ==
    IF c \in {TS, LS} THEN TS_process(process_type) ELSE BS_process(process_type)

\* Crew(agents=[a["agent"] for a in self.agents], tasks=..., process=process)
Crew(as, tos, process) ==
    [agents |-> [i \in 1..Len(as) |-> as[i].agent],
     tasks |-> tos,
     process |-> process]

\* the number of characters of a description kept by
\* LeadershipStyleSimulation.process_results
SummaryLimit == 100
Ellipsis == <<".", ".", ".">>

\* description[:100] + "..."
truncated(description) ==
    SubSeq(description, 1, Min(Len(description), SummaryLimit)) \o Ellipsis

\* the "team_composition" / "agent_composition" list of a metrics record
team_composition(as) ==
    [i \in 1..Len(as) |-> [name |-> as[i].name, role |-> as[i].role]]

\* the "tasks" list of a metrics record
task_summaries(c, ts) ==
    CASE c = TS -> [i \in 1..Len(ts) |->
                      [description |-> ts[i].description,
                       assigned_to |-> ts[i].assigned_to]]
      [] c = LS -> [i \in 1..Len(ts) |->
                      [description |-> truncated(ts[i].description),
                       assigned_to |-> ts[i].assigned_to]]
      [] OTHER -> [i \in 1..Len(ts) |-> ts[i].description]

\* process_results / _process_results: the metrics record of a run; stamp is
\* the clock read for "timestamp"
process_results(c, as, ts, cr, st, et, deviant, res, stamp) ==
    CASE c = TS ->
            [duration_seconds |-> et - st,
             team_size |-> Len(as),
             task_count |-> Len(ts),
             include_deviant |-> deviant,
             process_type |-> cr.process,
             team_composition |-> team_composition(as),
             tasks |-> task_summaries(c, ts),
             results |-> res,
             timestamp |-> stamp]
      [] c = LS ->
            [duration_seconds |-> et - st,
             team_size |-> Len(as) - 1,
             task_count |-> Len(ts),
             process_type |-> cr.process,
             team_composition |-> team_composition(as),
             tasks |-> task_summaries(c, ts),
             results |-> res,
             timestamp |-> stamp]
      [] c = BS ->
            [duration_seconds |-> et - st,
             team_composition |-> team_composition(as),
             tasks |-> task_summaries(c, ts),
             results |-> res,
             timestamp |-> stamp]
      [] c = CA ->
            [duration_seconds |-> et - st,
             number_of_agents |-> Len(as),
             number_of_tasks |-> Len(ts),
             agent_composition |-> team_composition(as),
             results |-> res,
             timestamp |-> stamp]

\* the precondition checks at the head of run_simulation: the message of the
\* ValueError raised, or None when the run goes on
run_precondition(c, as, ts) ==
    IF c \in {TS, LS} /\ as = << >> THEN "No agents have been added"
    ELSE IF c \in {TS, LS} /\ ts = << >> THEN "No tasks have been added"
    ELSE None

\* (faulty variant) a failed run that stores a partial output
failed_run_results_partial == "out"

\* what a run whose kickoff() raised leaves in self.results / self.end_time:
\* the assignments after the call are not reached
failed_run_results == results
failed_run_end_time == end_time

\* run_simulation(process_type).  ok/out: whether crew.kickoff() returns, and
\* the text it returns.  The clock is read before and after kickoff(); one
\* tick passes in between.
run_simulation(process_type, ok, out) ==
    LET msg == run_precondition(cls, agents, tasks)
        cr == Crew(agents, task_objects, process_of(cls, process_type))
    IN  IF msg # None
        THEN /\ ret' = Raised("run_simulation", "", "ValueError", msg)
             /\ UNCHANGED <<crew, results, start_time, end_time, now, engine_calls>>
        ELSE /\ engine_calls < MaxRuns
             /\ start_time' = now
             /\ crew' = <<cr>>
             /\ engine_calls' = engine_calls + 1
             /\ now' = now + 1
             /\ IF ok
                THEN /\ end_time' = now + 1
                     /\ results' = out
                     /\ ret' = Returned("run_simulation", "",
                            process_results(cls, agents, tasks, cr, now, now + 1,
                                            include_deviant, out, now + 1))
                ELSE /\ end_time' = failed_run_end_time
                     /\ results' = failed_run_results
                     /\ ret' = Raised("run_simulation", "",
                                      "EngineError", "kickoff failed")

RunSimulation ==
    /\ \E process_type \in ProcessTypes, ok \in BOOLEAN :
          \E out \in (IF ok THEN Outputs ELSE {""}) :
             run_simulation(process_type, ok, out)
    /\ UNCHANGED <<cls, team_size, include_deviant, agents, tasks>>
    /\ UNCHANGED <<dvars, xvars>>

----------------------------------------------------------------------------
(* The life cycle of one simulation object *)

SetupTeam ==
    /\ \/ \E custom \in CustomPersonalities : TS_setup_team(custom)
       \/ LS_setup_team
    /\ UNCHANGED <<dvars, xvars>>

CreateMember ==
    /\ \/ \E name \in MemberNames : create_team_leader(name)
       \/ \E name \in MemberNames, role \in MemberRoles : create_team_member(name, role)
       \/ \E name \in MemberNames, role \in MemberRoles : create_deviant_member(name, role)
    /\ UNCHANGED <<dvars, xvars>>

AddTask ==
    /\ \/ \E description \in Descriptions, assigned_to \in TaskRoles :
             add_task(description, assigned_to)
       \/ \E description \in Descriptions,
             agent \in {agents[i].agent : i \in 1..Len(agents)} \cup {Outsider} :
             add_task_agent(description, agent)
    /\ UNCHANGED <<dvars, xvars>>

Init == SimInit /\ DIdle /\ XIdle

Next ==
    \/ SetupTeam
    \/ CreateMember
    \/ AddTask
    \/ RunSimulation

Spec == Init /\ [][Next]_vars

----------------------------------------------------------------------------
(* Claims about binding and running *)

\* C1: in the classes that bind by role, an add_task whose role no persona
\* of the team holds raises the "No agent with role" ValueError and leaves
\* self.tasks as it was, whatever the team (the empty team included).
C1_UnknownRoleRejected ==
    [][ ( /\ cls \in RoleBinding
          /\ ret'.op = "add_task"
          /\ ret'.arg \notin RolesOf(agents) )
        => ( /\ ret'.exc = "ValueError"
             /\ ret'.msg = "No agent with role"
             /\ ret'.value = << >>
             /\ tasks' = tasks ) ]_vars

\* add_task was refused on a team that has personas and a bound task
C1_Witness ==
    /\ cls \in RoleBinding
    /\ ret.op = "add_task" /\ ret.exc = "ValueError"
    /\ ret.arg = "Nonexistent"
    /\ agents # << >>
    /\ tasks # << >>

\* the role a bound task was bound to
bound_role(t) == IF cls \in RoleBinding THEN t.assigned_to ELSE t.agent.role

\* C2: every bound task's role is the role of exactly one persona of the
\* team, and every task of a Crew that was run belongs to an agent of that
\* Crew.
C2_BoundToExactlyOne ==
    /\ \A i \in 1..Len(tasks) :
          Cardinality({ j \in 1..Len(agents) : agents[j].role = bound_role(tasks[i]) }) = 1
    /\ crew # << >> =>
          \A i \in 1..Len(crew[1].tasks) :
              \E j \in 1..Len(crew[1].agents) :
                  crew[1].agents[j] = crew[1].tasks[i].agent

\* C3: no two personas of the team share a role.
C3_RolesUnique ==
    \A i, j \in 1..Len(agents) : i # j => agents[i].role # agents[j].role

\* C4: a run_simulation call on a team without personas or without tasks
\* raises a ValueError and changes neither start_time, end_time, crew nor
\* results, and calls no engine.
C4_RunNeedsTeamAndTasks ==
    [][ ( /\ ret'.op = "run_simulation"
          /\ (agents = << >> \/ tasks = << >>) )
        => ( /\ ret'.exc = "ValueError"
             /\ UNCHANGED <<start_time, end_time, crew, results, engine_calls>> ) ]_vars

\* C7: a run whose kickoff() raises ends with the error: one engine call was
\* made and none after it, no metrics record is returned, and self.results
\* and self.end_time are as before the run.
C7_FailedRunStoresNothing ==
    [][ ( /\ ret'.op = "run_simulation"
          /\ ret'.exc = "EngineError" )
        => ( /\ ret'.value = << >>
             /\ results' = results
             /\ end_time' = end_time
             /\ engine_calls' = engine_calls + 1 ) ]_vars

\* a run failed in the engine after an earlier run had succeeded: the earlier
\* output is still the stored one
C7_Witness ==
    /\ ret.op = "run_simulation" /\ ret.exc = "EngineError"
    /\ agents # << >> /\ tasks # << >>
    /\ engine_calls = 2
    /\ results = "out"

\* C22: every add_task call that returns appends exactly one task at the end
\* of the task list, the task of the call's arguments; the earlier tasks keep
\* their places and the personas are untouched.  A call whose arguments equal
\* those of an earlier call appends all the same.
C22_AppendOnly ==
    [][ (ret'.op = "add_task" /\ ret'.exc = None) =>
          /\ Len(tasks') = Len(tasks) + 1
          /\ SubSeq(tasks', 1, Len(tasks)) = tasks
          /\ bound_role(tasks'[Len(tasks')]) = ret'.arg
          /\ tasks'[Len(tasks')].description = ret'.value[1].description
          /\ agents' = agents ]_vars

\* add_task was called twice with the same description and role on a team
\* built by setup_team, and the task list holds two equal entries
C22_Witness ==
    /\ cls \in RoleBinding
    /\ ret.op = "add_task" /\ ret.exc = None
    /\ Len(tasks) = 2
    /\ tasks[1] = tasks[2]

\* C20: once a run of the simulation object has completed or failed (its
\* kickoff() returned or raised), no later call starts another run or changes
\* start_time, end_time, crew or results.
C20_RunIsTerminal ==
    [][ engine_calls >= 1 =>
            UNCHANGED <<start_time, end_time, crew, results, engine_calls>> ]_vars

\* C23: after every step, when self.results is set, start_time and end_time
\* are set and end_time is not earlier than start_time; and a step that makes
\* an engine call and ends with self.results set is a run that returned: the
\* stored output and the two times are those of that run (its record carries
\* the output and their difference).
C23_ResultsPairedWithTimes ==
    [][ results' \notin {None, EmptyDict} =>
          /\ start_time' # NoTime
          /\ end_time' # NoTime
          /\ end_time' >= start_time'
          /\ engine_calls' # engine_calls =>
                /\ ret'.exc = None
                /\ ret'.value[1].results = results'
                /\ ret'.value[1].duration_seconds = end_time' - start_time' ]_vars

\* C30: the team_size of every record a LeadershipStyleSimulation run returns
\* is the number of personas of the team whose role is not "Team Leader",
\* however many setup_team calls were made before the run.
C30_TeamSizeExcludesLeader ==
    (cls = LS /\ ret.op = "run_simulation" /\ ret.value # << >>) =>
        ret.value[1].team_size =
            Cardinality({ i \in 1..Len(agents) : agents[i].role # "Team Leader" })

----------------------------------------------------------------------------
(* The trait descriptor on inputs drawn by Init *)

TraitsInit ==
    /\ d_cls \in {TS, LS, CA}
    /\ d_traits \in TraitMaps
    /\ d_text = << >>
    /\ d_agents = << >>
    /\ d_prev = << >>
    /\ d_last = << >>

\* one call of the descriptor; d_text holds the returned text
Describe ==
    /\ d_text = << >>
    /\ d_text' = <<describe(d_cls, d_traits)>>
    /\ UNCHANGED <<d_cls, d_traits, d_agents, d_prev, d_last>>
    /\ UNCHANGED <<simvars, xvars>>

TraitsStart == SimIdle /\ TraitsInit /\ XIdle

SpecTraits == TraitsStart /\ [][Describe]_vars

\* the pieces of a text, as a set
Pieces(text) == { text[i] : i \in 1..Len(text) }

\* the items of a trait mapping whose name the class's descriptor knows
KnownItems(c, traits) ==
    { i \in 1..Len(traits) : traits[i][1] \in trait_descriptions_keys(c) }

\* C8: in TeamSimulation and LeadershipStyleSimulation, the description of a
\* trait mapping holds, for every known trait of the mapping, the trait's
\* high sentence exactly when its value is above 0.7 and its low sentence
\* exactly when its value is below 0.3 (0.3 and 0.7 themselves give neither),
\* and it is the empty string when no known trait crosses a threshold.
C8_OpenThresholds ==
    (d_text # << >> /\ d_cls \in {TS, LS}) =>
        LET text == d_text[1]
            known == KnownItems(d_cls, d_traits)
        IN  /\ \A i \in known :
                LET trait == d_traits[i][1]
                    value == d_traits[i][2]
                IN  /\ (trait_descriptions(trait, "high") \in Pieces(text)) <=> (value > 70)
                    /\ (trait_descriptions(trait, "low") \in Pieces(text)) <=> (value < 30)
            /\ (\A i \in known : d_traits[i][2] >= 30 /\ d_traits[i][2] <= 70)
                  => text = << >>

\* a description was made of a mapping holding a known trait at exactly 0.7,
\* one at exactly 0.3, and nothing was emitted
C8_Witness ==
    /\ d_text = << << >> >>
    /\ d_cls \in {TS, LS}
    /\ \E i, j \in KnownItems(d_cls, d_traits) :
          d_traits[i][2] = 70 /\ d_traits[j][2] = 30

\* a description was made that holds a high sentence and a low sentence
C8_WitnessCrossing ==
    /\ d_text # << >>
    /\ d_cls \in {TS, LS}
    /\ \E i, j \in KnownItems(d_cls, d_traits) :
          /\ d_traits[i][2] = 71 /\ d_traits[j][2] = 29
          /\ trait_descriptions(d_traits[i][1], "high") \in Pieces(d_text[1])
          /\ trait_descriptions(d_traits[j][1], "low") \in Pieces(d_text[1])

\* two trait mappings hold the same trait/value pairs
SameItems(m1, m2) ==
    /\ Len(m1) = Len(m2)
    /\ { m1[i] : i \in 1..Len(m1) } = { m2[i] : i \in 1..Len(m2) }

\* C9: the description of a trait mapping does not depend on the insertion
\* order of the mapping: every mapping with the same trait/value pairs has
\* the same description.
C9_CanonicalOrder ==
    d_text # << >> =>
        \A m \in TraitMaps :
            SameItems(m, d_traits) => describe(d_cls, m) = d_text[1]

\* the items of a trait mapping whose name the class's descriptor knows, in
\* the mapping's order
Restricted(c, traits) ==
    SelectSeq(traits, LAMBDA item : item[1] \in trait_descriptions_keys(c))

\* C19: _traits_to_text returns for every trait mapping, and what it returns
\* is the description of the mapping restricted to the trait names it knows:
\* an unknown name contributes no sentence.
C19_UnknownTraitIgnored ==
    (d_text # << >> /\ d_cls \in {TS, LS}) =>
        /\ d_text[1] = traits_to_text(d_cls, Restricted(d_cls, d_traits))
        /\ Cardinality({ i \in 1..Len(d_text[1]) : d_text[1][i] # " " })
              <= Len(Restricted(d_cls, d_traits))

\* a mapping with the unknown name "humor" above the threshold and a known
\* trait above it was described
C19_Witness ==
    /\ d_text # << >> /\ d_cls = TS
    /\ \E i, j \in 1..Len(d_traits) :
          /\ d_traits[i] = <<"humor", 71>>
          /\ d_traits[j] = <<"openness", 71>>
    /\ d_text[1] = <<"You are very open to new ideas and experiences.">>

----------------------------------------------------------------------------
(* The persona builders of one TeamSimulation object *)

PersonaStart == SimIdle /\ DIdle /\ XIdle

\* one builder call, as setup_team makes it: the persona is appended to
\* self.agents; d_last remembers the inputs and the narrative
Build(variant, name, role, expertise, traits) ==
    /\ Len(d_agents) < MaxBuilds
    /\ LET persona ==
              IF variant = "Dissenting"
              THEN create_deviant_agent(Self(d_agents), name, role, expertise, traits)
              ELSE create_agent(Self(d_agents), name, role, expertise, traits)
       IN  /\ d_agents' = Append(d_agents, persona)
           /\ d_last' = << [input |-> <<name, role, expertise, traits, variant>>,
                            narrative |-> persona.agent.backstory] >>
    /\ d_prev' = d_last
    /\ UNCHANGED <<d_cls, d_traits, d_text>>
    /\ UNCHANGED <<simvars, xvars>>

BuildPersona ==
    \E variant \in Variants, name \in BuildNames, role \in BuildRoles,
       expertise \in BuildExpertise, traits \in BuildTraits :
        Build(variant, name, role, expertise, traits)

SpecPersona == PersonaStart /\ [][BuildPersona]_vars

\* C10: two builder calls on the same simulation object with the same
\* (name, role, expertise, traits, variant) give the same narrative, whatever
\* the first call left in the object.
C10_Deterministic ==
    (d_prev # << >> /\ d_last # << >> /\ d_prev[1].input = d_last[1].input)
        => d_prev[1].narrative = d_last[1].narrative

\* C18: no persona with an empty name or an empty role is ever added to the
\* team.
C18_NoEmptyPersona ==
    \A i \in 1..Len(d_agents) : d_agents[i].name # "" /\ d_agents[i].role # ""

\* the same inputs were built twice in a row, the second time on an object
\* that already holds the first persona
C10_Witness ==
    /\ d_prev # << >> /\ d_last # << >>
    /\ d_prev[1].input = d_last[1].input
    /\ Len(d_agents) >= 2
    /\ d_last[1].input[4] # << >>

----------------------------------------------------------------------------
(* TeamSimulation.setup_team with the personas as the builders make them *)

MaxSetupSize == 7
MaxSetupAgents == 7

\* self.default_personalities with every key, in list order (trait values in
\* hundredths)
personality_definitions ==
    << [name |-> "Alex", role |-> "Team Leader", expertise |-> "project management",
        traits |-> << <<"openness", 70>>, <<"conscientiousness", 80>>,
                      <<"extraversion", 70>>, <<"agreeableness", 60>>,
                      <<"neuroticism", 30>> >>],
       [name |-> "Blair", role |-> "Technical Expert", expertise |-> "software development",
        traits |-> << <<"openness", 80>>, <<"conscientiousness", 70>>,
                      <<"extraversion", 40>>, <<"agreeableness", 50>>,
                      <<"neuroticism", 40>> >>],
       [name |-> "Casey", role |-> "Creative Lead", expertise |-> "design thinking",
        traits |-> << <<"openness", 90>>, <<"conscientiousness", 50>>,
                      <<"extraversion", 70>>, <<"agreeableness", 70>>,
                      <<"neuroticism", 40>> >>],
       [name |-> "Drew", role |-> "Analyst", expertise |-> "data analysis",
        traits |-> << <<"openness", 60>>, <<"conscientiousness", 90>>,
                      <<"extraversion", 30>>, <<"agreeableness", 60>>,
                      <<"neuroticism", 40>> >>],
       [name |-> "Ellis", role |-> "Marketing Specialist", expertise |-> "market research",
        traits |-> << <<"openness", 70>>, <<"conscientiousness", 60>>,
                      <<"extraversion", 80>>, <<"agreeableness", 70>>,
                      <<"neuroticism", 30>> >>],
       [name |-> "Finley", role |-> "Devil's Advocate", expertise |-> "critical thinking",
        traits |-> << <<"openness", 90>>, <<"conscientiousness", 60>>,
                      <<"extraversion", 50>>, <<"agreeableness", 30>>,
                      <<"neuroticism", 40>>, <<"conformity", 20>> >>] >>

\* custom_personalities arguments tried (<< >> is None or the empty list)
SetupCustom ==
    { << >>,
      << [name |-> "Pat", role |-> "Analyst", expertise |-> "data analysis",
          traits |-> << >>] >>,
      << [name |-> "Pat", role |-> "Analyst", expertise |-> "data analysis",
          traits |-> << >>],
         [name |-> "Sam", role |-> "Analyst", expertise |-> "market research",
          traits |-> << <<"openness", 90>> >>],
         [name |-> "Finley", role |-> "Devil's Advocate", expertise |-> "critical thinking",
          traits |-> << <<"conformity", 20>> >>] >> }

\* (faulty variant) a team size capped at the length of the list: the last
\* personality can be built as a regular member too
setup_team_agents_uncapped(self, size, deviant, custom) ==
    LET personalities == IF custom # << >> THEN custom ELSE personality_definitions
        actual_team_size == Min(size, Len(personalities))
        regular == [i \in 1..Max(actual_team_size, 0) |->
                       create_agent(self, personalities[i].name, personalities[i].role,
                                    personalities[i].expertise, personalities[i].traits)]
        last == personalities[Len(personalities)]
    IN  IF deviant
        THEN Append(regular, create_deviant_agent(self, last.name, last.role,
                                                  last.expertise, last.traits))
        ELSE regular

\* the dictionaries one TeamSimulation.setup_team call appends to self.agents
setup_team_agents(self, size, deviant, custom) ==
    LET personalities == IF custom # << >> THEN custom ELSE personality_definitions
        actual_team_size == Min(size, Len(personalities) - 1)
        regular == [i \in 1..Max(actual_team_size, 0) |->
                       create_agent(self, personalities[i].name, personalities[i].role,
                                    personalities[i].expertise, personalities[i].traits)]
        last == personalities[Len(personalities)]
    IN  IF deviant
        THEN Append(regular, create_deviant_agent(self, last.name, last.role,
                                                  last.expertise, last.traits))
        ELSE regular

\* a TeamSimulation object after construction
SetupStart ==
    /\ cls = TS
    /\ team_size \in 0..MaxSetupSize
    /\ include_deviant \in BOOLEAN
    /\ agents = << >> /\ tasks = << >> /\ crew = << >>
    /\ results = None /\ start_time = NoTime /\ end_time = NoTime
    /\ now = 0 /\ engine_calls = 0
    /\ ret = ReturnedNone("__init__", "")
    /\ DIdle
    /\ XIdle

\* setup_team(custom_personalities); d_agents is self.agents, d_last keeps the
\* argument of the call
SetupPersonas ==
    /\ \E custom \in SetupCustom :
          LET new == setup_team_agents(Self(d_agents), team_size, include_deviant, custom)
          IN  /\ Len(d_agents) + Len(new) <= MaxSetupAgents
              /\ d_agents' = d_agents \o new
              /\ d_last' = << [input |-> custom] >>
    /\ UNCHANGED <<d_cls, d_traits, d_text, d_prev>>
    /\ UNCHANGED <<simvars, xvars>>

SpecSetup == SetupStart /\ [][SetupPersonas]_vars

\* the goal the two builders give the Agent
StandardGoal(expertise) ==
    <<"Contribute your expertise in ", expertise, " to help the team succeed">>
DissentingGoal == <<"Contribute your expertise while challenging conventional thinking">>

\* C26: one setup_team call on a TeamSimulation without personas leaves the
\* first min(team_size, len(personalities) - 1) personalities, in list order
\* and built as standard members, followed exactly when include_deviant is
\* true by the last personality built as the dissenting member; no standard
\* member is made from the last position of the list.
C26_SetupTeamComposition ==
    [][ d_agents = << >> =>
          LET custom == d_last'[1].input
              personalities == IF custom # << >> THEN custom ELSE personality_definitions
              n == Len(personalities)
              k == IF team_size < n - 1 THEN team_size ELSE n - 1
              team == d_agents'
          IN  /\ Len(team) = k + (IF include_deviant THEN 1 ELSE 0)
              /\ k < n
              /\ \A i \in 1..k :
                    /\ team[i].name = personalities[i].name
                    /\ team[i].role = personalities[i].role
                    /\ team[i].expertise = personalities[i].expertise
                    /\ team[i].traits = personalities[i].traits
                    /\ team[i].agent.goal = StandardGoal(personalities[i].expertise)
              /\ include_deviant =>
                    /\ team[k + 1].name = personalities[n].name
                    /\ team[k + 1].role = personalities[n].role
                    /\ team[k + 1].agent.goal = DissentingGoal ]_vars

\* one call with the default personalities and a team_size above their
\* number: five standard members and the dissenting one
C26_Witness ==
    /\ team_size > Len(personality_definitions)
    /\ include_deviant
    /\ d_last = << [input |-> << >>] >>
    /\ Len(d_agents) = Len(personality_definitions)
    /\ d_agents[Len(d_agents)].name = "Finley"
    /\ d_agents[Len(d_agents)].agent.goal = DissentingGoal

----------------------------------------------------------------------------
(* Two DiversityInclusionSimulation objects with the same configuration *)

MaxProfiles == 2

\* the lists _generate_team_profiles draws from
names ==
    << "Alex", "Taylor", "Jordan", "Casey", "Riley",
       "Morgan", "Jamie", "Drew", "Avery", "Quinn",
       "Cameron", "Reese", "Dakota", "Skyler", "Phoenix" >>
roles ==
    << "Data Analyst", "Project Manager", "UX Designer",
       "Software Engineer", "Marketing Specialist",
       "Financial Advisor", "HR Consultant", "Product Manager",
       "Operations Specialist", "Research Scientist" >>
thinking_styles == {"Analytical", "Creative", "Practical", "Conceptual", "Reflective"}
communication_styles == {"Direct", "Collaborative", "Analytical", "Intuitive", "Functional"}
DiversityLevels == {"high", "low"}

\* names.remove(name): the list without its first occurrence of name (the
\* names are distinct)
Remove(ns, name) == SelectSeq(ns, LAMBDA x : x # name)

\* the facilitator profiles random.choice(names) can give
facilitator_profiles ==
    { [name |-> names[k], role |-> "Team Facilitator",
       thinking_style |-> "Integrative", communication_style |-> "Inclusive"]
      : k \in 1..Len(names) }

\* the profiles member i (counted from 0) can get: under "high" the two styles
\* are random.choice results, under "low" they follow the parity of i
member_profiles(ns, i, diversity_level) ==
    IF diversity_level = "high"
    THEN { [name |-> ns[i + 1], role |-> roles[i + 1],
            thinking_style |-> t, communication_style |-> c]
           : t \in thinking_styles, c \in communication_styles }
    ELSE { [name |-> ns[i + 1], role |-> roles[i + 1],
            thinking_style |-> IF i % 2 = 0 THEN "Analytical" ELSE "Practical",
            communication_style |-> IF i % 2 = 0 THEN "Direct" ELSE "Collaborative"] }

\* the member lists the loop "for i in range(size - 1)" can build from index i on
RECURSIVE member_lists(_, _, _, _)
member_lists(ns, i, size, diversity_level) ==
    IF i >= size - 1 THEN { << >> }
    ELSE IF i < Len(ns) /\ i < Len(roles)
         THEN { <<m>> \o rest : m \in member_profiles(ns, i, diversity_level),
                                rest \in member_lists(ns, i + 1, size, diversity_level) }
         ELSE member_lists(ns, i + 1, size, diversity_level)

\* (faulty variant) profiles generated without names.remove(...): a member
\* can get the facilitator's name
generate_team_profiles_keep(size, diversity_level) ==
    UNION { { <<f>> \o ms : ms \in member_lists(names, 0, size, diversity_level) }
            : f \in facilitator_profiles }

\* _generate_team_profiles(size, diversity_level): every list of profiles the
\* random draws can produce.  Of a profile, the name, the role and the two
\* styles are kept (background, expertise and years_experience are drawn at
\* random as well).
generate_team_profiles(size, diversity_level) ==
    UNION { { <<f>> \o ms : ms \in member_lists(Remove(names, f.name), 0, size, diversity_level) }
            : f \in facilitator_profiles }

\* the entry _create_facilitator / _create_team_member appends to self.agents
DI_persona(profile) ==
    [name |-> profile.name, role |-> profile.role,
     thinking_style |-> profile.thinking_style,
     communication_style |-> profile.communication_style,
     agent |-> Agent(profile.role, profile.name)]

\* DiversityInclusionSimulation.setup_team: the facilitator first, then the
\* other profiles in list order
DI_setup_agents(profiles) ==
    LET facilitators == SelectSeq(profiles, LAMBDA q : q.role = "Team Facilitator")
        member == SelectSeq(profiles, LAMBDA q : q.role # "Team Facilitator")
        ordered == <<facilitators[1]>> \o member
    IN  [i \in 1..Len(ordered) |-> DI_persona(ordered[i])]

ProfilesInit ==
    /\ p_size \in 0..MaxProfiles
    /\ p_level \in DiversityLevels
    /\ p_profiles = << << >>, << >> >>
    /\ p_agents = << << >>, << >> >>

\* DiversityInclusionSimulation(name, team_size=p_size, diversity_level=p_level)
\* for simulation k: __init__ stores the generated profiles
NewSimulation(k) ==
    /\ p_profiles[k] = << >>
    /\ \E profiles \in generate_team_profiles(p_size, p_level) :
          p_profiles' = [p_profiles EXCEPT ![k] = profiles]
    /\ UNCHANGED <<p_size, p_level, p_agents>>

\* setup_team() on simulation k
DI_setup_team(k) ==
    /\ p_profiles[k] # << >>
    /\ p_agents[k] = << >>
    /\ p_agents' = [p_agents EXCEPT ![k] = DI_setup_agents(p_profiles[k])]
    /\ UNCHANGED <<p_size, p_level, p_profiles>>

Construct ==
    /\ \E k \in 1..2 : NewSimulation(k)
    /\ UNCHANGED <<simvars, dvars, a_log, hvars, mvars, files>>

SetupProfiles ==
    /\ \E k \in 1..2 : DI_setup_team(k)
    /\ UNCHANGED <<simvars, dvars, a_log, hvars, mvars, files>>

ProfilesStart ==
    SimIdle /\ DIdle /\ ProfilesInit /\ a_log = << >> /\ HIdle /\ MIdle /\ FIdle

ProfilesNext ==
    \/ Construct
    \/ SetupProfiles

SpecProfiles == ProfilesStart /\ [][ProfilesNext]_vars

\* C11: two simulations constructed with the same team_size and
\* diversity_level and both set up hold the same sequence of personas
\* (names, roles, thinking and communication styles).
C11_Reproducible ==
    (p_agents[1] # << >> /\ p_agents[2] # << >>) => p_agents[1] = p_agents[2]

----------------------------------------------------------------------------
(* One DiversityInclusionSimulation: construction, setup_team and the task *)
(* scenarios.  Simulation 1 of the p_ variables is the object; tasks is its *)
(* self.tasks.                                                              *)

MaxRoster == 12
MaxHighSize == 2
MaxScenarioTasks == 3

\* the branch of the if/elif chain a member's role selects in
\* setup_innovation_task / setup_decision_task ("word in role" is a substring test)
task_category(kind, role) ==
    LET words == CASE role = "Data Analyst" -> {"Data", "Analyst"}
                   [] role = "UX Designer" -> {"UX", "Design"}
                   [] role = "Software Engineer" -> {"Software", "Engineer"}
                   [] role = "Marketing Specialist" -> {"Marketing", "Market"}
                   [] role = "Financial Advisor" -> {"Financial"}
                   [] role = "Operations Specialist" -> {"Operations"}
                   [] OTHER -> {}
        has(S) == words \cap S # {}
    IN  IF kind = "innovation"
        THEN CASE has({"Analyst", "Data"}) -> "analysis"
               [] has({"Engineer", "Technical", "Software"}) -> "technical"
               [] has({"Design", "UX"}) -> "design"
               [] has({"Marketing", "Market"}) -> "marketing"
               [] OTHER -> "generic"
        ELSE CASE has({"Analyst", "Data"}) -> "analysis"
               [] has({"Financial", "Finance"}) -> "financial"
               [] has({"Engineer", "Technical", "Software"}) -> "technical"
               [] has({"Operations"}) -> "operations"
               [] OTHER -> "generic"

\* (faulty variant) a loop without the "continue" for the facilitator: every
\* persona of the team gets a member task
setup_task_entries_all(kind, as) ==
    LET entry(description, assigned_to) ==
            [description |-> description,
             assigned_to |-> assigned_to,
             task_object |-> Task(description, as[first_match(as, assigned_to)].agent)]
    IN  << entry(<<kind, "facilitation">>, "Team Facilitator") >>
        \o [i \in 1..Len(as) |->
               entry(<<kind, task_category(kind, as[i].role), as[i].thinking_style>>,
                     as[i].role)]

\* the entries setup_innovation_task / setup_decision_task append to
\* self.tasks on a team that has a facilitator: the facilitator's task, then
\* one add_task per persona whose role is not "Team Facilitator", each looked
\* up by the persona's role.  Of a description, the scenario, the branch and
\* the thinking style written into it are kept.
setup_task_entries(kind, as) ==
    LET member == SelectSeq(as, LAMBDA a : a.role # "Team Facilitator")
        entry(description, assigned_to) ==
            [description |-> description,
             assigned_to |-> assigned_to,
             task_object |-> Task(description, as[first_match(as, assigned_to)].agent)]
    IN  << entry(<<kind, "facilitation">>, "Team Facilitator") >>
        \o [i \in 1..Len(member) |->
               entry(<<kind, task_category(kind, member[i].role), member[i].thinking_style>>,
                     member[i].role)]

\* no simulation constructed yet; the arguments of the constructor are drawn
\* (under "high" the team sizes are kept small: every member draws two styles)
DiversityStart ==
    /\ SimIdle
    /\ DIdle
    /\ p_size \in 0..MaxRoster
    /\ p_level \in DiversityLevels
    /\ (p_level = "high" => p_size <= MaxHighSize)
    /\ p_profiles = << << >>, << >> >>
    /\ p_agents = << << >>, << >> >>
    /\ a_log = << >> /\ HIdle /\ MIdle /\ FIdle

\* sim = DiversityInclusionSimulation(name, team_size=p_size, diversity_level=p_level)
ConstructOne ==
    /\ NewSimulation(1)
    /\ UNCHANGED <<simvars, dvars, a_log, hvars, mvars, files>>

\* sim.setup_team()
SetupOne ==
    /\ DI_setup_team(1)
    /\ UNCHANGED <<simvars, dvars, a_log, hvars, mvars, files>>

\* sim.setup_innovation_task() / sim.setup_decision_task(): the first
\* add_task raises when the team has no facilitator.  A scenario is set up
\* again only while the task list stays within MaxScenarioTasks.
SetupScenario ==
    /\ p_profiles[1] # << >>
    /\ \E kind \in {"innovation", "decision"} :
          IF first_match(p_agents[1], "Team Facilitator") = 0
          THEN /\ ret' = Raised("setup_task", kind, "ValueError", "No agent with role")
               /\ UNCHANGED tasks
          ELSE LET new == setup_task_entries(kind, p_agents[1])
               IN  /\ (tasks = << >> \/ Len(tasks) + Len(new) <= MaxScenarioTasks)
                   /\ tasks' = tasks \o new
                   /\ ret' = ReturnedNone("setup_task", kind)
    /\ UNCHANGED <<cls, team_size, include_deviant, agents, crew, results,
                   start_time, end_time, now, engine_calls>>
    /\ UNCHANGED <<dvars, pvars, a_log, hvars, mvars, files>>

DiversityNext ==
    \/ ConstructOne
    \/ SetupOne
    \/ SetupScenario

SpecDiversity == DiversityStart /\ [][DiversityNext]_vars

\* C27: the profiles generated for a team_size of at least 1 are
\* 1 + min(team_size - 1, 10) in number, the first is the one "Team
\* Facilitator", all names are pairwise distinct (the facilitator's included)
\* and all roles are pairwise distinct.
C27_ProfilesWellFormed ==
    (p_profiles[1] # << >> /\ p_size >= 1) =>
        LET ps == p_profiles[1]
        IN  /\ Len(ps) = 1 + (IF p_size - 1 < 10 THEN p_size - 1 ELSE 10)
            /\ ps[1].role = "Team Facilitator"
            /\ \A i \in 2..Len(ps) : ps[i].role # "Team Facilitator"
            /\ \A i, j \in 1..Len(ps) :
                  i # j => (ps[i].name # ps[j].name /\ ps[i].role # ps[j].role)

\* profiles were generated for a team_size above the number of roles, the
\* facilitator having drawn a name from the first ten of the list
C27_Witness ==
    /\ p_size = 12
    /\ Len(p_profiles[1]) = 11
    /\ p_profiles[1][1].name = "Jordan"
    /\ p_profiles[1][3].name = "Taylor"
    /\ p_profiles[1][4].name = "Casey"

\* C28: a scenario set up on a simulation whose team was set up and that has
\* no task yet raises nothing and leaves one task per persona, in team order:
\* the first is the facilitator's, and task i is assigned to the role of
\* persona i and bound to persona i's own Agent.
C28_TaskPerPersona ==
    [][ (ret'.op = "setup_task" /\ tasks = << >> /\ p_agents[1] # << >>) =>
          LET team == p_agents[1]
          IN  /\ ret'.exc = None
              /\ Len(tasks') = Len(team)
              /\ team[1].role = "Team Facilitator"
              /\ \A i \in 1..Len(team) :
                    /\ tasks'[i].assigned_to = team[i].role
                    /\ tasks'[i].task_object.agent = team[i].agent
                    /\ tasks'[i].task_object.description = tasks'[i].description ]_vars

\* the decision scenario was set up on a team of the facilitator and ten
\* members
C28_Witness ==
    /\ ret.op = "setup_task" /\ ret.arg = "decision" /\ ret.exc = None
    /\ Len(p_agents[1]) = 11
    /\ Len(tasks) = 11
    /\ tasks[7].description[2] = "financial"

----------------------------------------------------------------------------
(* Result aggregation (process_results) on simulation states drawn by Init *)

MaxTime == 2
MaxAggregations == 2
MaxDescription == 102

\* clock readings stored in start_time / end_time by a run
AggTimes == 0..MaxTime
\* lengths of the task descriptions tried
DescriptionLengths == {2, SummaryLimit - 1, SummaryLimit, SummaryLimit + 1, MaxDescription}

\* teams tried, as the class's builders leave them
AggTeams(c) ==
    CASE c = TS -> { TS_new_agents(1, FALSE, << >>), TS_new_agents(1, TRUE, << >>) }
      [] c = LS -> { LS_new_agents(0), LS_new_agents(1) }
      [] OTHER -> { << >>,
                    << Persona("Taylor", "Team Leader") >>,
                    << Persona("Taylor", "Team Leader"), Persona("Taylor", "Analyst") >> }

\* the entry add_task appends for a task bound to persona
bound_task(c, description, persona) ==
    IF c \in RoleBinding
    THEN [description |-> description,
          assigned_to |-> persona.role,
          task_object |-> Task(description, persona.agent)]
    ELSE Task(description, persona.agent)

\* task lists tried: one task bound to the first persona
AggTasks(c, as) ==
    (IF c \in RoleBinding THEN {} ELSE { << >> })
    \cup (IF as = << >> THEN {}
          ELSE { << bound_task(c, Text(n), as[1]) >> : n \in DescriptionLengths })

\* a simulation object after a run: the team, the tasks, the Crew and the
\* two clock readings (the wall clock is not monotonic: end may precede start)
AggInit ==
    /\ cls \in Classes
    /\ team_size = 0
    /\ include_deviant \in BOOLEAN
    /\ (cls # TS => include_deviant = FALSE)
    /\ agents \in AggTeams(cls)
    /\ tasks \in AggTasks(cls, agents)
    /\ \E process \in {"hierarchical", "sequential"} :
          crew = << Crew(agents, task_objects, process) >>
    /\ results \in Outputs
    /\ start_time \in AggTimes
    /\ end_time \in AggTimes
    /\ now = MaxTime
    /\ engine_calls = 1
    /\ ret = ReturnedNone("__init__", "")
    /\ a_log = << >>

\* (faulty variant) an aggregation that stores the raw output in self.results
process_results_call_storing(raw, tick) ==
    /\ Len(a_log) < MaxAggregations
    /\ now' = now + tick
    /\ ret' = Returned("process_results", raw,
                  process_results(cls, agents, tasks, crew[1], start_time, end_time,
                                  include_deviant, raw, now + tick))
    /\ a_log' = Append(a_log, ret')
    /\ results' = raw
    /\ UNCHANGED <<cls, team_size, include_deviant, agents, tasks, crew,
                   start_time, end_time, engine_calls>>

\* a direct call of process_results(raw) / _process_results(raw)
process_results_call(raw, tick) ==
    /\ Len(a_log) < MaxAggregations
    /\ now' = now + tick
    /\ ret' = Returned("process_results", raw,
                  process_results(cls, agents, tasks, crew[1], start_time, end_time,
                                  include_deviant, raw, now + tick))
    /\ a_log' = Append(a_log, ret')
    /\ UNCHANGED <<cls, team_size, include_deviant, agents, tasks, crew, results,
                   start_time, end_time, engine_calls>>

ProcessResults ==
    /\ \E raw \in Outputs, tick \in {0, 1} : process_results_call(raw, tick)
    /\ UNCHANGED <<dvars, pvars, hvars, mvars, files>>

AggregateStart == AggInit /\ DIdle /\ PIdle /\ HIdle /\ MIdle /\ FIdle

SpecAggregate == AggregateStart /\ [][ProcessResults]_vars

\* C12: process_results never returns a record with a negative duration; when
\* end_time is earlier than start_time the call fails.
C12_NegativeDurationRejected ==
    ret.op = "process_results" =>
        /\ ret.value # << >> =>
              /\ ret.value[1].duration_seconds = end_time - start_time
              /\ ret.value[1].duration_seconds >= 0
        /\ end_time < start_time => (ret.exc # None /\ ret.value = << >>)

\* the description a task summary of a record carries
summary_description(c, summary) ==
    IF c \in RoleBinding THEN summary.description ELSE summary

\* C14: in a record returned by process_results, every task summary's
\* description is the first 100 characters of the bound task's description
\* followed by the ellipsis.
C14_SummariesTruncated ==
    (ret.op = "process_results" /\ cls # CA) =>
        \A i \in 1..Len(tasks) :
            LET full == tasks[i].description
                kept == IF Len(full) < 100 THEN Len(full) ELSE 100
            IN  summary_description(cls, ret.value[1].tasks[i])
                    = SubSeq(full, 1, kept) \o <<".", ".", ".">>

\* a record with its timestamp blanked
Untimed(record) == [record EXCEPT !.timestamp = 0]

\* C15: a process_results call changes no field of the simulation object, and
\* the record it returns equals, except for the timestamp, the record of every
\* earlier call made with the same raw output.
C15_AggregationPure ==
    [][ ret'.op = "process_results" =>
          /\ UNCHANGED <<cls, team_size, include_deviant, agents, tasks, crew,
                         results, start_time, end_time, engine_calls>>
          /\ \A i \in 1..Len(a_log) :
                a_log[i].arg = ret'.arg =>
                    Untimed(a_log[i].value[1]) = Untimed(ret'.value[1]) ]_vars

\* process_results was called twice with the same raw output, the clock
\* having moved in between
C15_Witness ==
    /\ Len(a_log) = 2
    /\ a_log[1].arg = a_log[2].arg
    /\ a_log[1].value[1].timestamp # a_log[2].value[1].timestamp
    /\ tasks # << >>

----------------------------------------------------------------------------
(* A metrics record and the team it was made from, with object identity *)

\* The traits dictionaries that exist once the object is constructed, in the
\* order of the personality tables; a dictionary is known by its position
\* (its identity).  Of each dictionary the "openness" entry is kept.
traits_table(c) ==
    IF c = TS
    THEN << [openness |-> 70], [openness |-> 80], [openness |-> 90],
            [openness |-> 60], [openness |-> 70], [openness |-> 90] >>
    ELSE << [openness |-> 30],
            [openness |-> 60], [openness |-> 90], [openness |-> 50],
            [openness |-> 70], [openness |-> 40] >>

\* values a caller may store into a traits dictionary
NewTraitValues == {10, 90}

\* the personas one setup_team call appends, each with the identity of the
\* dictionary its "traits" entry refers to: the builders store the dictionary
\* they were handed (person["traits"], style_info["traits"]), not a copy
team_with_traits(c, size, deviant) ==
    LET base == IF c = TS THEN TS_new_agents(size, deviant, << >>)
                          ELSE LS_new_agents(size)
        regular == Max(Min(size, Len(default_personalities) - 1), 0)
        ref(i) == IF c = TS /\ i > regular THEN Len(default_personalities) ELSE i
    IN  [i \in 1..Len(base) |->
            [name |-> base[i].name, role |-> base[i].role,
             agent |-> base[i].agent, traits |-> ref(i)]]

\* "team_composition" as process_results builds it: new entries, whose
\* "traits" is the persona's own dictionary
team_composition_refs(as) ==
    [i \in 1..Len(as) |->
        [name |-> as[i].name, role |-> as[i].role, traits |-> as[i].traits]]

\* what a reader of the record sees, the dictionaries it refers to read from heap
View(record, heap) ==
    [record EXCEPT !.team_composition =
        [i \in 1..Len(record.team_composition) |->
            [record.team_composition[i] EXCEPT
                !.traits = heap[record.team_composition[i].traits]]]]

\* a TeamSimulation or LeadershipStyleSimulation object after setup_team, one
\* add_task and a run
SnapInit ==
    /\ cls \in {TS, LS}
    /\ team_size \in 0..MaxTeamSize
    /\ include_deviant \in BOOLEAN
    /\ (cls # TS => include_deviant = FALSE)
    /\ agents = team_with_traits(cls, team_size, include_deviant)
    /\ agents # << >>
    /\ tasks = << bound_task(cls, Text(2), agents[1]) >>
    /\ crew = << Crew(agents, task_objects, "hierarchical") >>
    /\ results \in Outputs
    /\ start_time = 0
    /\ end_time = 1
    /\ now = 1
    /\ engine_calls = 1
    /\ ret = ReturnedNone("__init__", "")
    /\ h_heap = traits_table(cls)
    /\ h_record = << >>

\* record = sim.process_results(sim.results)
SnapAggregate ==
    /\ h_record = << >>
    /\ LET record ==
              [process_results(cls, agents, tasks, crew[1], start_time, end_time,
                               include_deviant, results, now)
                  EXCEPT !.team_composition = team_composition_refs(agents)]
       IN  /\ h_record' = <<record>>
           /\ ret' = Returned("process_results", results, record)
    /\ UNCHANGED <<cls, team_size, include_deviant, agents, tasks, crew, results,
                   start_time, end_time, now, engine_calls, h_heap>>
    /\ UNCHANGED <<dvars, pvars, a_log, mvars, files>>

\* sim.setup_team() once more: personas are added
SnapSetupTeam ==
    /\ LET new == team_with_traits(cls, team_size, include_deviant)
       IN  /\ Len(agents) + Len(new) <= MaxAgents
           /\ agents' = agents \o new
    /\ ret' = ReturnedNone("setup_team", "")
    /\ UNCHANGED <<cls, team_size, include_deviant, tasks, crew, results,
                   start_time, end_time, now, engine_calls, hvars>>
    /\ UNCHANGED <<dvars, pvars, a_log, mvars, files>>

\* sim.add_task(...) once more: a task is added
SnapAddTask ==
    /\ Len(tasks) < MaxTasks
    /\ \E i \in 1..Len(agents) :
          /\ tasks' = Append(tasks, bound_task(cls, Text(2), agents[i]))
          /\ ret' = Returned("add_task", agents[i].role, Task(Text(2), agents[i].agent))
    /\ UNCHANGED <<cls, team_size, include_deviant, agents, crew, results,
                   start_time, end_time, now, engine_calls, hvars>>
    /\ UNCHANGED <<dvars, pvars, a_log, mvars, files>>

\* sim.agents[i]["traits"]["openness"] = value  (for the leader of a
\* LeadershipStyleSimulation the dictionary is LEADERSHIP_STYLES[style]["traits"])
SetTrait ==
    /\ \E i \in 1..Len(agents), value \in NewTraitValues :
          h_heap' = [h_heap EXCEPT ![agents[i].traits].openness = value]
    /\ UNCHANGED <<simvars, h_record>>
    /\ UNCHANGED <<dvars, pvars, a_log, mvars, files>>

SnapshotStart == SnapInit /\ DIdle /\ PIdle /\ a_log = << >> /\ MIdle /\ FIdle

SnapshotNext ==
    \/ SnapAggregate
    \/ SnapSetupTeam
    \/ SnapAddTask
    \/ SetTrait

SpecSnapshot == SnapshotStart /\ [][SnapshotNext]_vars

\* C13: once a record has been produced, no later change of the team (personas
\* or tasks added, a trait value stored into a persona's or a leadership
\* style's traits) changes what the record shows.
C13_RecordIsSnapshot ==
    [][ (h_record # << >> /\ h_record' = h_record)
            => View(h_record[1], h_heap') = View(h_record[1], h_heap) ]_vars

----------------------------------------------------------------------------
(* Comparison of results: compare_simulations and the comparison runs *)

MaxResults == 2
MaxDuration == 2

\* durations of the runs compared
Durations == 1..MaxDuration

\* metrics records handed to compare_simulations: one per class and duration,
\* of a team of one persona with one task
CompareRecords ==
    { process_results(c, team, << bound_task(c, Text(2), team[1]) >>,
                      Crew(team, << >>, "sequential"), 0, duration, FALSE, "out", duration)
      : c \in Classes, duration \in Durations,
        team \in { << Persona("Taylor", "Team Leader") >> } }

RECURSIVE SeqsUpTo(_, _)
SeqsUpTo(S, n) ==
    IF n = 0 THEN { << >> }
    ELSE SeqsUpTo(S, n - 1)
         \cup { Append(q, x) : q \in { r \in SeqsUpTo(S, n - 1) : Len(r) = n - 1 }, x \in S }

\* names arguments tried: << >> is None, <<list>> a list
NamesArguments ==
    { << >>, << << >> >>, << <<"With Deviant">> >>,
      << <<"With Deviant", "Without Deviant">> >>,
      << <<"Without Deviant", "With Deviant", "Third">> >> }

\* f'Simulation {i+1}' for the 0-based index i, here by the 1-based position
DefaultName(position) ==
    CASE position = 1 -> "Simulation 1"
      [] position = 2 -> "Simulation 2"
      [] position = 3 -> "Simulation 3"
      [] OTHER -> "Simulation n"

\* dict.get(key, default) on a metrics record
get(record, key, default) ==
    IF key \in DOMAIN record THEN record[key] ELSE default

\* the row metrics.append({...}) adds for the results at a position
comparison_row(record, name) ==
    [name |-> name,
     duration |-> get(record, "duration_seconds", 0),
     agent_count |-> get(record, "number_of_agents", 0),
     task_count |-> get(record, "number_of_tasks", 0)]

\* the rows sorted by duration, shortest first (two rows at most are swapped)
RECURSIVE sorted_rows(_)
sorted_rows(rows) ==
    IF Len(rows) <= 1 THEN rows
    ELSE LET k == CHOOSE i \in 1..Len(rows) :
                     \A j \in 1..Len(rows) :
                         rows[i].duration < rows[j].duration
                         \/ (rows[i].duration = rows[j].duration /\ i <= j)
             rest == [i \in 1..(Len(rows) - 1) |-> IF i < k THEN rows[i] ELSE rows[i + 1]]
         IN  <<rows[k]>> \o sorted_rows(rest)

\* (faulty variant) a comparison that orders its rows by duration
compare_simulations_sorted(sim_results_list, given) ==
    LET used == IF given = << >>
                THEN [i \in 1..Len(sim_results_list) |-> DefaultName(i)]
                ELSE given[1]
    IN  IF Len(used) < Len(sim_results_list)
        THEN Raised("compare_simulations", "", "IndexError", "list index out of range")
        ELSE Returned("compare_simulations", "",
                 sorted_rows([i \in 1..Len(sim_results_list) |->
                                 comparison_row(sim_results_list[i], used[i])]))

\* compare_simulations(sim_results_list, names): the rows of the DataFrame it
\* returns, or the IndexError of names[i] when names is too short
compare_simulations(sim_results_list, given) ==
    LET used == IF given = << >>
                THEN [i \in 1..Len(sim_results_list) |-> DefaultName(i)]
                ELSE given[1]
    IN  IF Len(used) < Len(sim_results_list)
        THEN Raised("compare_simulations", "", "IndexError", "list index out of range")
        ELSE Returned("compare_simulations", "",
                 [i \in 1..Len(sim_results_list) |->
                     comparison_row(sim_results_list[i], used[i])])

\* the configurations of the two comparison runs, and the key each is stored under
leadership_styles == <<"authoritarian", "democratic", "laissez_faire", "transformational">>
configurations == <<"high_high", "high_low", "low_high", "low_low">>
ComparisonFunctions == {"leadership", "diversity_inclusion"}
configuration_keys(fn) == IF fn = "leadership" THEN leadership_styles ELSE configurations

\* results[key] = value on a dictionary kept as its items in insertion order
dict_set(items, key, value) ==
    IF \E i \in 1..Len(items) : items[i].key = key
    THEN [i \in 1..Len(items) |->
             IF items[i].key = key THEN [key |-> key, value |-> value] ELSE items[i]]
    ELSE Append(items, [key |-> key, value |-> value])

\* the record sim.run_simulation returns in the loop: the metrics of the class
\* with the configuration it was built for
comparison_result(fn, key, duration) ==
    LET team == LS_new_agents(1)
        record == process_results(LS, team, << bound_task(LS, Text(2), team[1]) >>,
                      Crew(team, << >>, IF fn = "leadership" THEN "hierarchical" ELSE "sequential"),
                      0, duration, FALSE, "out", duration)
    IN  record @@ ("configuration" :> key)

CompareInit ==
    /\ m_in \in SeqsUpTo(CompareRecords, MaxResults)
    /\ m_names \in NamesArguments
    /\ m_out = << >>
    /\ m_fn \in ComparisonFunctions
    /\ m_results = << >>
    /\ m_pc = 1

\* df = compare_simulations(m_in, names=...)
Compare ==
    /\ m_out = << >>
    /\ m_out' = << compare_simulations(m_in, m_names) >>
    /\ UNCHANGED <<m_in, m_names, m_fn, m_results, m_pc>>
    /\ UNCHANGED <<simvars, dvars, pvars, a_log, hvars, files>>

\* one turn of the loop of run_leadership_comparison /
\* run_diversity_inclusion_comparison: a simulation is built, run, and its
\* result stored under the configuration's key; a run that raises ends the
\* function (m_pc = 0)
ComparisonStep ==
    /\ m_pc \in 1..Len(configuration_keys(m_fn))
    /\ \E ok \in BOOLEAN, duration \in Durations :
          IF ok
          THEN /\ m_results' = dict_set(m_results, configuration_keys(m_fn)[m_pc],
                                   comparison_result(m_fn, configuration_keys(m_fn)[m_pc], duration))
               /\ m_pc' = m_pc + 1
          ELSE /\ m_results' = m_results
               /\ m_pc' = 0
    /\ UNCHANGED <<m_in, m_names, m_out, m_fn>>
    /\ UNCHANGED <<simvars, dvars, pvars, a_log, hvars, files>>

CompareStart ==
    SimIdle /\ DIdle /\ PIdle /\ a_log = << >> /\ HIdle /\ CompareInit /\ FIdle

CompareNext ==
    \/ Compare
    \/ ComparisonStep

SpecCompare == CompareStart /\ [][CompareNext]_vars

\* C16: the rows compare_simulations returns are one per input result, in
\* input order, row i carrying input i's duration and name; and a comparison
\* run that went through all its configurations holds one result per
\* configuration, in configuration order, each under its own key.
C16_RowPerResultInOrder ==
    /\ (m_out # << >> /\ m_out[1].value # << >>) =>
          LET rows == m_out[1].value[1]
          IN  /\ Len(rows) = Len(m_in)
              /\ \A i \in 1..Len(m_in) :
                    /\ rows[i].duration = m_in[i].duration_seconds
                    /\ rows[i].name = IF m_names = << >> THEN DefaultName(i)
                                      ELSE m_names[1][i]
    /\ m_pc > Len(configuration_keys(m_fn)) =>
          /\ Len(m_results) = Len(configuration_keys(m_fn))
          /\ \A i \in 1..Len(m_results) :
                /\ m_results[i].key = configuration_keys(m_fn)[i]
                /\ m_results[i].value.configuration = configuration_keys(m_fn)[i]

\* two results were compared, the longer run first, and a comparison run
\* went through all its configurations
C16_Witness ==
    /\ m_out # << >> /\ m_out[1].value # << >>
    /\ Len(m_in) = 2
    /\ m_in[1].duration_seconds > m_in[2].duration_seconds
    /\ m_pc > Len(configuration_keys(m_fn))
    /\ m_results[1].value.duration_seconds > m_results[2].value.duration_seconds

\* the number of personas / tasks a metrics record holds
personas_recorded(record) ==
    IF "team_composition" \in DOMAIN record THEN Len(record.team_composition)
    ELSE Len(record.agent_composition)
tasks_recorded(record) ==
    IF "tasks" \in DOMAIN record THEN Len(record.tasks) ELSE record.number_of_tasks

\* C17: row i of compare_simulations reports the duration of result i, the
\* number of personas it records and the number of tasks it records (its
\* label is the names argument's entry, or "Simulation i").
C17_RowReportsItsResult ==
    (m_out # << >> /\ m_out[1].value # << >>) =>
        \A i \in 1..Len(m_in) :
            LET row == m_out[1].value[1][i]
            IN  /\ row.duration = m_in[i].duration_seconds
                /\ row.agent_count = personas_recorded(m_in[i])
                /\ row.task_count = tasks_recorded(m_in[i])

\* C21: a run that fails in one configuration does not end the comparison:
\* every turn of the loop goes on to the next configuration, and leaves the
\* results either as they were (the failed configuration is left out) or with
\* an entry under the configuration's own key.
C21_ComparisonSurvivesFailure ==
    [][ m_pc' # m_pc =>
          /\ m_pc' = m_pc + 1
          /\ \/ m_results' = m_results
             \/ \E i \in 1..Len(m_results') :
                   m_results'[i].key = configuration_keys(m_fn)[m_pc] ]_vars

----------------------------------------------------------------------------
(* Runs and save_results on a simulation object, the argument of each run *)
(* kept *)

\* json.dump(self.results, f, indent=2, default=str): the text written
json_dump(v) ==
    CASE v = None -> "null"
      [] v = EmptyDict -> "{}"
      [] v = "" -> "\"\""
      [] v = "out" -> "\"out\""

\* the team one setup_team call, or one builder call, leaves in class c
SaveTeam(c, size, deviant) ==
    CASE c = TS -> TS_new_agents(size, deviant, << >>)
      [] c = LS -> LS_new_agents(size)
      [] OTHER -> << Persona("Taylor", "Team Leader") >>

\* a simulation object after construction, at most one team set-up and at
\* most one add_task
SaveInit ==
    /\ cls \in Classes
    /\ team_size \in 0..MaxTeamSize
    /\ include_deviant \in BOOLEAN
    /\ (cls # TS => include_deviant = FALSE)
    /\ (cls \notin {TS, LS} => team_size = 0)
    /\ agents \in { << >>, SaveTeam(cls, team_size, include_deviant) }
    /\ tasks \in { << >> } \cup (IF agents = << >> THEN {}
                                 ELSE { << bound_task(cls, Text(2), agents[1]) >> })
    /\ crew = << >>
    /\ results = IF cls = CA THEN EmptyDict ELSE None
    /\ start_time = NoTime
    /\ end_time = NoTime
    /\ now = 0
    /\ engine_calls = 0
    /\ ret = ReturnedNone("__init__", "")
    /\ files = << >>

\* save_results(directory): TeamSimulation and LeadershipStyleSimulation test
\* "not self.results" first; the file's name carries the clock reading, so a
\* second save at the same reading writes the same file again.  The filename
\* returned is known by that reading.
save_results ==
    /\ IF cls \in {TS, LS} /\ ~Truthy(results)
       THEN /\ ret' = Raised("save_results", "", "ValueError", "No results to save")
            /\ UNCHANGED files
       ELSE /\ files' = dict_set(files, now, json_dump(results))
            /\ ret' = Returned("save_results", "", now)
    /\ UNCHANGED <<cls, team_size, include_deviant, agents, tasks, crew, results,
                   start_time, end_time, now, engine_calls>>

SaveResults ==
    /\ save_results
    /\ UNCHANGED <<dvars, pvars, a_log, hvars, mvars>>

\* run_simulation(process_type), d_last keeping the argument of the call
RunWith ==
    /\ \E process_type \in ProcessTypes, ok \in BOOLEAN :
          \E out \in (IF ok THEN Outputs ELSE {""}) :
             /\ run_simulation(process_type, ok, out)
             /\ d_last' = << [input |-> process_type] >>
    /\ UNCHANGED <<cls, team_size, include_deviant, agents, tasks>>
    /\ UNCHANGED <<d_cls, d_traits, d_text, d_agents, d_prev>>
    /\ UNCHANGED xvars

SaveStart == SaveInit /\ DIdle /\ PIdle /\ a_log = << >> /\ HIdle /\ MIdle

SaveNext ==
    \/ RunWith
    \/ SaveResults

SpecSave == SaveStart /\ [][SaveNext]_vars

\* C24: save_results on a simulation object none of whose runs has returned
\* (end_time was never set) raises the "No results to save" ValueError and
\* writes no file.
C24_NoResultsNoFile ==
    [][ (ret'.op = "save_results" /\ end_time = NoTime) =>
          /\ ret'.exc = "ValueError"
          /\ ret'.msg = "No results to save"
          /\ files' = files ]_vars

\* C25: save_results called right after a run_simulation that returned
\* returns a filename, and the file of that name holds the run's output.
C25_SaveAfterRunSucceeds ==
    [][ (ret'.op = "save_results" /\ ret.op = "run_simulation" /\ ret.exc = None) =>
          /\ ret'.exc = None
          /\ ret'.value # << >>
          /\ \E i \in 1..Len(files') :
                /\ files'[i].key = ret'.value[1]
                /\ files'[i].value = json_dump(ret.value[1].results) ]_vars

\* C29: in every class, a run builds its Crew with the hierarchical process
\* exactly when its process_type argument, lower-cased, is "hierarchical",
\* and with the sequential process for every other argument.
C29_SameProcessMapping ==
    [][ (ret'.op = "run_simulation" /\ engine_calls' # engine_calls) =>
          crew'[1].process = IF Lower(d_last'[1].input) = "hierarchical"
                             THEN "hierarchical" ELSE "sequential" ]_vars

====
